---- MODULE Spec2Model ----
(***************************************************************************)
(* MyUdemyProgress: the status vocabulary, the identity keys and the       *)
(* Status Ledger of src/main.py (with the status helpers of                *)
(* src/personal/main.py), as a state machine.                              *)
(*                                                                         *)
(* Strings are sequences of characters, one element per code point, so     *)
(* that strip(), lower() and the f-string concatenations are computed.     *)
(* A code point outside ASCII is written "U+xxxx".  A JSON value that is   *)
(* not a string is one of the NonStrings tokens.                           *)
(***************************************************************************)
EXTENDS Integers, Sequences, FiniteSets, TLC

\* ------------------------------------------------------------------------
\* Bounds
\* ------------------------------------------------------------------------
\* the user picks a lecture status among the first MaxPick options
MaxPick == 2
\* the user picks a master status among "---" and the first MaxMaster options
MaxMaster == 1
\* number of keys of the ledgers the save/load round trip is tried on
MaxLedgerKeys == 2
\* length of the whitespace put before and after a status string
MaxPad == 1

\* ------------------------------------------------------------------------
\* Characters and Python's str methods
\* ------------------------------------------------------------------------
UpperChars == <<"A","B","C","D","E","F","G","H","I","J","K","L","M",
                "N","O","P","Q","R","S","T","U","V","W","X","Y","Z">>
LowerChars == <<"a","b","c","d","e","f","g","h","i","j","k","l","m",
                "n","o","p","q","r","s","t","u","v","w","x","y","z">>
Whitespace == {" ", "\t", "\n", "\r"}

\* JSON values without a strip() method
NonStrings == {<<"null">>, <<"number">>, <<"list">>}
IsString(v) == v \notin NonStrings

\* the lower-case letter of each upper-case letter, and the converse
ToLower ==
  [c \in {UpperChars[i] : i \in 1..26} |->
     LowerChars[CHOOSE i \in 1..26 : UpperChars[i] = c]] @@ <<>>
ToUpper ==
  [c \in {LowerChars[i] : i \in 1..26} |->
     UpperChars[CHOOSE i \in 1..26 : LowerChars[i] = c]] @@ <<>>

LowerChar(c) == IF c \in DOMAIN ToLower THEN ToLower[c] ELSE c

UpperChar(c) == IF c \in DOMAIN ToUpper THEN ToUpper[c] ELSE c

\* str.lower()
RECURSIVE Lower(_)
Lower(s) == IF s = <<>> THEN <<>> ELSE <<LowerChar(Head(s))>> \o Lower(Tail(s))
\* str.upper()
RECURSIVE Upper(_)
Upper(s) == IF s = <<>> THEN <<>> ELSE <<UpperChar(Head(s))>> \o Upper(Tail(s))

RECURSIVE LStrip(_)
LStrip(s) == IF s # <<>> /\ Head(s) \in Whitespace THEN LStrip(Tail(s)) ELSE s

RECURSIVE RStrip(_)
RStrip(s) ==
  IF s # <<>> /\ s[Len(s)] \in Whitespace
  THEN RStrip(SubSeq(s, 1, Len(s) - 1))
  ELSE s

\* str.strip()
Strip(s) == RStrip(LStrip(s))

\* ------------------------------------------------------------------------
\* Status vocabulary (src/main.py)
\* ------------------------------------------------------------------------
pNotDone       == <<"N","o","t"," ","D","o","n","e">>
pInProgress    == <<"I","n"," ","P","r","o","g","r","e","s","s">>
pDone          == <<"D","o","n","e">>
pImportant     == <<"I","m","p","o","r","t","a","n","t">>
pComeBackLater == <<"C","o","m","e"," ","B","a","c","k"," ","L","a","t","e","r">>
pSkip          == <<"S","k","i","p">>
pMaybe         == <<"M","a","y","b","e">>
pIgnore        == <<"I","g","n","o","r","e">>

dNotDone       == <<"U+274C"," ","N","o","t"," ","D","o","n","e">>
dInProgress    == <<"U+23F3"," ","I","n"," ","P","r","o","g","r","e","s","s">>
dDone          == <<"U+2705"," ","D","o","n","e">>
dImportant     == <<"U+2B50"," ","I","m","p","o","r","t","a","n","t">>
dComeBackLater == <<"U+23F0"," ","C","o","m","e"," ","B","a","c","k"," ","L","a","t","e","r">>
dSkip          == <<"U+23ED"," ","S","k","i","p">>
dMaybe         == <<"U+23F3"," ","M","a","y","b","e">>
dIgnore        == <<"U+1F6AB"," ","I","g","n","o","r","e">>

\* status_info with the display of "Maybe" spelled like that of "In Progress"
status_info_shared_display ==
  << [plain |-> pNotDone,       display |-> dNotDone],
     [plain |-> pInProgress,    display |-> dInProgress],
     [plain |-> pDone,          display |-> dDone],
     [plain |-> pImportant,     display |-> dImportant],
     [plain |-> pComeBackLater, display |-> dComeBackLater],
     [plain |-> pSkip,          display |-> dSkip],
     [plain |-> pMaybe,         display |-> dInProgress],
     [plain |-> pIgnore,        display |-> dIgnore] >>

\* the dict literal, in insertion order
status_info ==
  << [plain |-> pNotDone,       display |-> dNotDone],
     [plain |-> pInProgress,    display |-> dInProgress],
     [plain |-> pDone,          display |-> dDone],
     [plain |-> pImportant,     display |-> dImportant],
     [plain |-> pComeBackLater, display |-> dComeBackLater],
     [plain |-> pSkip,          display |-> dSkip],
     [plain |-> pMaybe,         display |-> dMaybe],
     [plain |-> pIgnore,        display |-> dIgnore] >>

\* a dict built by a comprehension over a sequence of (key, value) pairs:
\* a later pair replaces an earlier one with the same key
RECURSIVE DictOf(_)
DictOf(pairs) ==
  IF pairs = <<>> THEN <<>>
  ELSE LET n == Len(pairs)
       IN  (pairs[n][1] :> pairs[n][2]) @@ DictOf(SubSeq(pairs, 1, n - 1))

\* dict.get(k, default)
DictGet(d, k, default) == IF k \in DOMAIN d THEN d[k] ELSE default

\* [info["display"] for info in status_info.values()]
RECURSIVE Displays(_)
Displays(infos) ==
  IF infos = <<>> THEN <<>> ELSE <<Head(infos).display>> \o Displays(Tail(infos))

\* the (status, display) items of status_info
RECURSIVE PlainDisplayPairs(_)
PlainDisplayPairs(infos) ==
  IF infos = <<>> THEN <<>>
  ELSE << <<Head(infos).plain, Head(infos).display>> >>
       \o PlainDisplayPairs(Tail(infos))

\* the (display, status) items of status_info
RECURSIVE DisplayPlainPairs(_)
DisplayPlainPairs(infos) ==
  IF infos = <<>> THEN <<>>
  ELSE << <<Head(infos).display, Head(infos).plain>> >>
       \o DisplayPlainPairs(Tail(infos))

universal_status_options == Displays(status_info)

status_mapping == DictOf(PlainDisplayPairs(status_info))

reverse_mapping == DictOf(DisplayPlainPairs(status_info))

\* the lower-cased elements of a list of strings
RECURSIVE LowerAll(_)
LowerAll(seq) ==
  IF seq = <<>> THEN <<>> ELSE <<Lower(Head(seq))>> \o LowerAll(Tail(seq))

\* for option in options: if option.lower() == value_clean: the position of
\* the first option that passes the test, 0 if none does
RECURSIVE FirstOption(_, _, _)
FirstOption(lowered, value_clean, i) ==
  IF i > Len(lowered) THEN 0
  ELSE IF lowered[i] = value_clean THEN i
  ELSE FirstOption(lowered, value_clean, i + 1)

\* the (k.lower(), v) items of a mapping given by its items
RECURSIVE LowerKeyPairs(_)
LowerKeyPairs(pairs) ==
  IF pairs = <<>> THEN <<>>
  ELSE << <<Lower(Head(pairs)[1]), Head(pairs)[2]>> >>
       \o LowerKeyPairs(Tail(pairs))

\* option.lower() for the options of the loop
universal_status_options_lower == LowerAll(universal_status_options)

\* mapping = {k.lower(): v for k, v in status_mapping.items()}
status_mapping_lower == DictOf(LowerKeyPairs(PlainDisplayPairs(status_info)))

\* get_ui_status without the lookup of the plain spellings
get_ui_status_display_only(value) ==
  LET value_clean == IF IsString(value) THEN Lower(Strip(value)) ELSE <<>>
      hit         == FirstOption(universal_status_options_lower, value_clean, 1)
  IN  IF hit # 0
      THEN universal_status_options[hit]
      ELSE universal_status_options[1]

\* get_ui_status without strip()
get_ui_status_no_strip(value) ==
  LET value_clean == IF IsString(value) THEN Lower(value) ELSE <<>>
      hit         == FirstOption(universal_status_options_lower, value_clean, 1)
  IN  IF hit # 0
      THEN universal_status_options[hit]
      ELSE DictGet(status_mapping_lower, value_clean,
                   universal_status_options[1])

\* get_ui_status falling back to the value itself
get_ui_status_keep_unknown(value) ==
  LET value_clean == IF IsString(value) THEN Lower(Strip(value)) ELSE <<>>
      hit         == FirstOption(universal_status_options_lower, value_clean, 1)
  IN  IF hit # 0
      THEN universal_status_options[hit]
      ELSE DictGet(status_mapping_lower, value_clean, value)

get_ui_status(value) ==
  LET value_clean == IF IsString(value) THEN Lower(Strip(value)) ELSE <<>>
      hit         == FirstOption(universal_status_options_lower, value_clean, 1)
  IN  IF hit # 0
      THEN universal_status_options[hit]
      ELSE DictGet(status_mapping_lower, value_clean,
                   universal_status_options[1])

\* get_plain_status falling back to the first plain spelling
get_plain_status_default_first(status) ==
  DictGet(reverse_mapping, status, status_info[1].plain)

get_plain_status(status) == DictGet(reverse_mapping, status, status)

\* get_plain_statuses without the conversion
get_plain_statuses_as_is(statuses_dict) == statuses_dict

get_plain_statuses(statuses_dict) ==
  [k \in DOMAIN statuses_dict |-> get_plain_status(statuses_dict[k])] @@ <<>>

\* ------------------------------------------------------------------------
\* Status vocabulary (src/personal/main.py)
\* ------------------------------------------------------------------------
personal_universal_status_options ==
  << dNotDone, dInProgress, dDone, dImportant,
     dComeBackLater, dSkip, dMaybe, dIgnore >>

personal_status_mapping_items ==
  << <<pNotDone, dNotDone>>, <<pInProgress, dInProgress>>,
     <<pDone, dDone>>, <<pImportant, dImportant>>,
     <<pComeBackLater, dComeBackLater>>, <<pSkip, dSkip>>,
     <<pMaybe, dMaybe>>, <<pIgnore, dIgnore>> >>

personal_status_mapping == DictOf(personal_status_mapping_items)

\* the outcome of a call that raises AttributeError
Raised == <<"AttributeError">>

personal_universal_status_options_lower ==
  LowerAll(personal_universal_status_options)

personal_status_mapping_lower ==
  DictOf(LowerKeyPairs(personal_status_mapping_items))

personal_get_ui_status(value) ==
  IF ~IsString(value) THEN Raised
  ELSE
    LET value_clean == Lower(Strip(value))
        hit         == FirstOption(personal_universal_status_options_lower,
                                   value_clean, 1)
    IN  IF hit # 0 THEN personal_universal_status_options[hit]
        ELSE IF value_clean \in DOMAIN personal_status_mapping_lower
             THEN personal_status_mapping_lower[value_clean]
        ELSE personal_universal_status_options[1]

\* ------------------------------------------------------------------------
\* Optional values and dicts
\* ------------------------------------------------------------------------
\* None, or a missing dict entry
None == <<>>
Some(v) == <<v>>
\* d.get(field, default) for an optional field
Get(opt, default) == IF opt = None THEN default ELSE opt[1]

EmptyDict == <<>>
\* d[k] = v
Put(d, k, v) == (k :> v) @@ d

\* ------------------------------------------------------------------------
\* Identity keys (src/main.py, render_course_details)
\* ------------------------------------------------------------------------
Digits == <<"0","1","2","3","4","5","6","7","8","9">>

\* str(n) of a non-negative int
RECURSIVE Str(_)
Str(n) == IF n < 10 THEN <<Digits[n + 1]>>
          ELSE Str(n \div 10) \o <<Digits[(n % 10) + 1]>>

Dash             == <<"-">>
sUntitled        == <<"U","n","t","i","t","l","e","d">>
sUntitledSection == sUntitled \o <<" ","S","e","c","t","i","o","n">>
sMaster          == <<"m","a","s","t","e","r">>
sApply           == <<"a","p","p","l","y">>
sStatus          == <<"s","t","a","t","u","s">>
\* the first option of the master selectbox
NoSelection      == <<"-","-","-">>

\* section.get("title", "Untitled Section")
SecTitle(section) == Get(section.title, sUntitledSection)

\* JSON values found under "object_index": a number or a string
JInt(n) == [int |-> n]
JStr(s) == [str |-> s]
\* str(value)
PyStr(j) == IF DOMAIN j = {"int"} THEN Str(j.int) ELSE j.str

\* the key with the four components run together
LectureKey_no_separator(cid, sec_title, item, idx) ==
  cid \o sec_title \o Get(item.title, sUntitled)
      \o PyStr(Get(item.object_index, JInt(idx)))

\* the key with '0' in place of the position of the item
LectureKey_zero_default(cid, sec_title, item, idx) ==
  cid \o Dash \o sec_title \o Dash \o Get(item.title, sUntitled)
      \o Dash \o PyStr(Get(item.object_index, JStr(<<"0">>)))

\* f"{selected_course_id}-{sec_title}-{item.get('title', 'Untitled')}-
\*    {str(item.get('object_index', idx))}", idx from enumerate()
LectureKey(cid, sec_title, item, idx) ==
  cid \o Dash \o sec_title \o Dash \o Get(item.title, sUntitled)
      \o Dash \o PyStr(Get(item.object_index, JInt(idx)))

\* generate_markdown, generate_individual_markdowns: f"{course_id}-
\*    {sec_title}-{item.get('title', 'Untitled')}-{item.get('object_index', '0')}"
MarkdownKey(course_id, sec_title, item) ==
  course_id \o Dash \o sec_title \o Dash \o Get(item.title, sUntitled)
      \o Dash \o PyStr(Get(item.object_index, JStr(<<"0">>)))

\* src/personal/main.py: f"{selected_course_id}-{sec_title}-
\*    {item.get('title', 'Untitled')}-{item.get('object_index', '0')}"
personal_LectureKey(cid, sec_title, item) ==
  cid \o Dash \o sec_title \o Dash \o Get(item.title, sUntitled)
      \o Dash \o PyStr(Get(item.object_index, JStr(<<"0">>)))

\* src/personal/main.py: f"master-{selected_course_id}-{sec_title}"
personal_MasterKey(cid, sec_title) == sMaster \o Dash \o cid \o Dash \o sec_title

\* f"{selected_course_id}-{sec_title}-master"
MasterKey(cid, sec_title) == cid \o Dash \o sec_title \o Dash \o sMaster
\* f"{master_key}-apply"
ApplyKey(master_key) == master_key \o Dash \o sApply
\* f"{key}-status"
UniqueKey(key) == key \o Dash \o sStatus

\* status_options.index(current_status) if current_status in status_options
\* else 0, as a 1-based position
OptionIndex(status_options, current_status) ==
  LET i == FirstOption(status_options, current_status, 1)
  IN  IF i = 0 THEN 1 ELSE i

\* ------------------------------------------------------------------------
\* Course Data Store documents: a JSON object is the sequence of its
\* entries in document order; an absent field is None
\* ------------------------------------------------------------------------
cA == <<"A">>
cB == <<"B">>
secS == <<"s">>
secT == <<"t">>

itemX == [title |-> Some(<<"x">>), object_index |-> None]
itemY == [title |-> Some(<<"y">>), object_index |-> None]
itemZ == [title |-> Some(<<"z">>), object_index |-> Some(JInt(7))]
\* an item with neither "title" nor "object_index"
itemU == [title |-> None, object_index |-> None]
itemW == [title |-> Some(<<"w">>), object_index |-> Some(JInt(3))]

kAx == <<"A","-","s","-","x","-","0">>
kAy == <<"A","-","s","-","y","-","1">>
kBz == <<"B","-","t","-","z","-","7">>
\* a key of no lecture of any document
kOld == <<"o","l","d">>

rawDoneLower   == <<"d","o","n","e">>
rawSkipPadded  == <<" ","S","k","i","p"," ">>
rawImportantUp == <<"U+2B50"," ","I","M","P","O","R","T","A","N","T">>
rawFinished    == <<"F","i","n","i","s","h","e","d">>
rawNull        == <<"null">>

\* two courses, both with an embedded "statuses" block naming the key kAx
DocTwo ==
  << [cid      |-> cA,
      statuses |-> Some((kAx :> rawImportantUp) @@ (kOld :> rawNull)),
      sections |-> << [title |-> Some(secS), items |-> <<itemX, itemY>>] >>],
     [cid      |-> cB,
      statuses |-> Some(kAx :> rawSkipPadded),
      sections |-> << [title |-> Some(secT), items |-> <<itemZ>>] >>] >>

\* one course whose section lists the same lecture twice
cD == <<"D">>
kDw == <<"D","-","s","-","w","-","3">>
DocDup ==
  << [cid      |-> cD,
      statuses |-> None,
      sections |-> << [title |-> Some(secS), items |-> <<itemW, itemW>>] >>] >>

CourseIds(doc) == {doc[i].cid : i \in 1..Len(doc)}
CourseOf(doc, cid) == doc[CHOOSE i \in 1..Len(doc) : doc[i].cid = cid]

\* ------------------------------------------------------------------------
\* autosave.json
\* ------------------------------------------------------------------------
\* the field written records whether this program wrote the file
AbsentFile ==
  [kind |-> "absent", has_json_data |-> FALSE, json_data |-> None,
   statuses |-> EmptyDict, written |-> FALSE]
\* exists, but json.load fails on it
MalformedFile ==
  [kind |-> "malformed", has_json_data |-> FALSE, json_data |-> None,
   statuses |-> EmptyDict, written |-> FALSE]
\* written by an earlier session or by hand
OldFile ==
  [kind |-> "object", has_json_data |-> TRUE, json_data |-> Some(DocTwo),
   statuses |-> (kAx :> rawDoneLower) @@ (kAy :> rawImportantUp)
                @@ (kBz :> rawFinished),
   written |-> FALSE]

InitFiles == {AbsentFile, MalformedFile, OldFile}

\* load_json: the parsed object, {} when reading or parsing fails
load_json(f) ==
  IF f.kind = "object"
  THEN [has_json_data |-> f.has_json_data, json_data |-> f.json_data,
        statuses |-> f.statuses]
  ELSE [has_json_data |-> FALSE, json_data |-> None, statuses |-> EmptyDict]

\* the raw status values that the files and documents above hold, and the
\* values that the program writes
StoredValues ==
  {status_info[i].plain : i \in 1..Len(status_info)}
  \cup {status_info[i].display : i \in 1..Len(status_info)}
  \cup {rawDoneLower, rawSkipPadded, rawImportantUp, rawFinished, rawNull}

\* get_ui_status of the stored values, evaluated once
StoredUiStatus == [v \in StoredValues |-> get_ui_status(v)] @@ <<>>

\* get_ui_status(value), looked up for a stored value
get_ui_status_of(value) ==
  IF value \in DOMAIN StoredUiStatus THEN StoredUiStatus[value]
  ELSE get_ui_status(value)

\* load_autosave storing the loaded statuses as they are
load_autosave_raw(f) ==
  LET data == load_json(f)
  IN  [json_data |-> IF data.has_json_data THEN data.json_data ELSE Some(<<>>),
       statuses  |-> data.statuses]

\* load_autosave: the new session_state["json_data"] and ["statuses"]
load_autosave(f) ==
  LET data == load_json(f)
  IN  [json_data |-> IF data.has_json_data THEN data.json_data ELSE Some(<<>>),
       statuses  |-> [k \in DOMAIN data.statuses |->
                        get_ui_status_of(data.statuses[k])] @@ <<>>]

\* save_autosave: the file written
save_autosave(jd, st) ==
  [kind |-> "object", has_json_data |-> TRUE, json_data |-> jd,
   statuses |-> get_plain_statuses(st), written |-> TRUE]

\* the merge keeping an entry the ledger already has
RECURSIVE MergeEmbedded_first_wins(_, _, _)
MergeEmbedded_first_wins(doc, i, st) ==
  IF i > Len(doc) THEN st
  ELSE LET block == doc[i].statuses
       IN  IF block = None THEN MergeEmbedded_first_wins(doc, i + 1, st)
           ELSE MergeEmbedded_first_wins(doc, i + 1,
                  st @@
                  [k \in DOMAIN block[1] |-> get_ui_status_of(block[1][k])])

\* main: merge of the embedded per-course "statuses" blocks, courses in
\* document order
RECURSIVE MergeEmbedded(_, _, _)
MergeEmbedded(doc, i, st) ==
  IF i > Len(doc) THEN st
  ELSE LET block == doc[i].statuses
       IN  IF block = None THEN MergeEmbedded(doc, i + 1, st)
           ELSE MergeEmbedded(doc, i + 1,
                  [k \in DOMAIN block[1] |-> get_ui_status_of(block[1][k])]
                  @@ st)

\* ------------------------------------------------------------------------
\* State
\* ------------------------------------------------------------------------
VARIABLES
  file,              \* data/autosave.json
  json_data,         \* st.session_state["json_data"]: None or Some(document)
  statuses,          \* st.session_state["statuses"], the Status Ledger
  wl,                \* state of the lecture selectboxes, by widget key
  wm,                \* state of the master selectboxes, by widget key
  uploader,          \* the file uploader: shown or not, and the file it holds
  selected_course,   \* settings["selected_course"]
  autosave_setting,  \* the Autosave checkbox
  keyIdentity,       \* the installed Streamlit identifies a keyed widget by
                     \* its key alone (TRUE) or by key and parameters (FALSE)
  last,              \* the interaction that caused the run of main that
                     \* has just been made; "idle" once that run has ended
  hist,              \* what that run did, phase by phase; between runs, the
                     \* page it rendered and the keys it set for the user
  op, arg, res       \* a status helper applied to an argument, and its result

vars == << file, json_data, statuses, wl, wm, uploader, selected_course,
           autosave_setting, keyIdentity, last, hist, op, arg, res >>

appVars == << file, json_data, statuses, wl, wm, uploader, selected_course,
              autosave_setting, keyIdentity, last, hist >>
pureVars == << op, arg, res >>

\* ------------------------------------------------------------------------
\* render_course_details (src/main.py)
\* ------------------------------------------------------------------------
\* st.selectbox(..., index=index, key=unique_key): the widget keeps its
\* stored value while its identity is unchanged, else it takes options[index]
WidgetId(index) == IF keyIdentity THEN 0 ELSE index

SelectboxValue(owl, unique_key, status_options, index) ==
  IF unique_key \in DOMAIN owl /\ owl[unique_key].id = WidgetId(index)
  THEN owl[unique_key].val
  ELSE status_options[index]

\* the loop over the items with their status selectboxes; a widget key
\* used twice in one run raises and ends the run
RECURSIVE RenderItems(_, _, _, _, _, _)
RenderItems(cid, sec_title, items, i, owl, rs) ==
  IF rs.aborted \/ i > Len(items) THEN rs
  ELSE
    LET key            == LectureKey(cid, sec_title, items[i], i - 1)
        current_status == DictGet(rs.statuses, key, dNotDone)
        unique_key     == UniqueKey(key)
        index          == OptionIndex(universal_status_options, current_status)
        new_status     == SelectboxValue(owl, unique_key,
                                         universal_status_options, index)
    IN  IF unique_key \in rs.seen
        THEN [rs EXCEPT !.aborted = TRUE]
        ELSE RenderItems(cid, sec_title, items, i + 1, owl,
               [rs EXCEPT
                  !.statuses = Put(@, key, new_status),
                  !.wl       = Put(@, unique_key,
                                   [id |-> WidgetId(index), val |-> new_status]),
                  !.seen     = @ \cup {unique_key}])

\* the Apply loop without the test for "---"
RECURSIVE ApplyMaster_unguarded(_, _, _, _, _, _)
ApplyMaster_unguarded(cid, sec_title, items, i, master_status, st) ==
  IF i > Len(items) THEN st
  ELSE ApplyMaster_unguarded(cid, sec_title, items, i + 1, master_status,
         Put(st, LectureKey(cid, sec_title, items[i], i - 1), master_status))

\* the loop run when the section's Apply button was clicked
RECURSIVE ApplyMaster(_, _, _, _, _, _)
ApplyMaster(cid, sec_title, items, i, master_status, st) ==
  IF i > Len(items) THEN st
  ELSE ApplyMaster(cid, sec_title, items, i + 1, master_status,
         IF master_status # NoSelection
         THEN Put(st, LectureKey(cid, sec_title, items[i], i - 1), master_status)
         ELSE st)

\* src/personal/main.py: the Apply loop
RECURSIVE personal_ApplyMaster(_, _, _, _, _, _)
personal_ApplyMaster(cid, sec_title, items, i, master_status, st) ==
  IF i > Len(items) THEN st
  ELSE personal_ApplyMaster(cid, sec_title, items, i + 1, master_status,
         IF master_status = NoSelection THEN st
         ELSE Put(st, personal_LectureKey(cid, sec_title, items[i]),
                  master_status))

RenderSection(cid, section, owl, owm, act, rs) ==
  LET sec_title     == SecTitle(section)
      master_key    == MasterKey(cid, sec_title)
      master_status == DictGet(owm, master_key, NoSelection)
      clicked       == act.type = "apply" /\ act.key = master_key
      applied       == IF clicked
                       THEN ApplyMaster(cid, sec_title, section.items, 1,
                                        master_status, rs.statuses)
                       ELSE rs.statuses
  IN  IF master_key \in rs.seen
      THEN [rs EXCEPT !.aborted = TRUE]
      ELSE RenderItems(cid, sec_title, section.items, 1, owl,
             [rs EXCEPT
                !.statuses = applied,
                !.wm       = Put(@, master_key, master_status),
                !.seen     = @ \cup {master_key}])

RECURSIVE RenderSections(_, _, _, _, _, _, _)
RenderSections(cid, sections, i, owl, owm, act, rs) ==
  IF rs.aborted \/ i > Len(sections) THEN rs
  ELSE RenderSections(cid, sections, i + 1, owl, owm, act,
         RenderSection(cid, sections[i], owl, owm, act, rs))

render_course_details(selected_course_id, doc, st, owl, owm, act) ==
  RenderSections(selected_course_id,
                 CourseOf(doc, selected_course_id).sections, 1, owl, owm, act,
                 [statuses |-> st, wl |-> EmptyDict, wm |-> EmptyDict,
                  owl |-> owl, owm |-> owm, seen |-> {}, aborted |-> FALSE])

\* ------------------------------------------------------------------------
\* show_progress_dashboard (src/main.py, src/personal/main.py)
\* ------------------------------------------------------------------------
\* {k: v for k, v in statuses.items() if k.startswith(f"{course_id}-")},
\* as the set of its keys
course_statuses(course_id, st) ==
  {k \in DOMAIN st : /\ Len(k) >= Len(course_id \o Dash)
                      /\ SubSeq(k, 1, Len(course_id \o Dash))
                           = course_id \o Dash}

\* sum(1 for s in course_statuses.values() if s == status)
CountOf(keys, st, status) == Cardinality({k \in keys : st[k] = status})

\* a float quotient num / den * 100 kept as the fraction it rounds; raised
\* stands for the ZeroDivisionError of a division by 0
Percent(num, den) ==
  IF den = 0 THEN [raised |-> TRUE, num |-> 0, den |-> 1]
  ELSE [raised |-> FALSE, num |-> num * 100, den |-> den]
\* the int 0 of the else branch
PercentZero == [raised |-> FALSE, num |-> 0, den |-> 1]

\* the counts computed by both variants
DashboardCounts(course_id, st) ==
  LET keys == course_statuses(course_id, st)
  IN  [total           |-> Cardinality(keys),
       done            |-> CountOf(keys, st, dDone),
       in_progress     |-> CountOf(keys, st, dInProgress),
       not_done        |-> CountOf(keys, st, dNotDone),
       important       |-> CountOf(keys, st, dImportant),
       come_back_later |-> CountOf(keys, st, dComeBackLater),
       maybe           |-> CountOf(keys, st, dMaybe),
       skip            |-> CountOf(keys, st, dSkip),
       ignore          |-> CountOf(keys, st, dIgnore)]

\* progress_percent of src/main.py
progress_percent(c) ==
  IF c.total > 0 THEN Percent(c.done, c.done + c.not_done) ELSE PercentZero

\* progress_percent of src/personal/main.py
personal_progress_percent(c) ==
  IF c.total > 0
  THEN Percent(c.done + c.important,
               c.done + c.important + c.in_progress + c.skip
               + c.come_back_later + c.not_done)
  ELSE PercentZero

show_progress_dashboard(course_id, st) ==
  progress_percent(DashboardCounts(course_id, st))

personal_show_progress_dashboard(course_id, st) ==
  personal_progress_percent(DashboardCounts(course_id, st))

\* ------------------------------------------------------------------------
\* main (src/main.py): one run of the script, caused by the interaction act
\* ------------------------------------------------------------------------
\* render_course_selection: the course shown by the "course_select" widget
CurrentCourse(doc, act) ==
  IF act.type = "select_course" /\ act.cid \in CourseIds(doc) THEN act.cid
  ELSE IF selected_course # None /\ selected_course[1] \in CourseIds(doc)
       THEN selected_course[1]
  ELSE doc[1].cid

\* the session left by a run that an uncaught exception ended after the
\* rendering of course cur: nothing is saved, no widget state is discarded
AbortedRun(file1, autosave1, json3, up, h, cur, rs) ==
  [file |-> file1, json_data |-> json3, statuses |-> rs.statuses,
   wl |-> rs.wl @@ rs.owl, wm |-> rs.wm @@ rs.owm,
   uploader |-> [shown |-> up.shown,
                 file |-> IF up.shown THEN up.file ELSE uploader.file],
   selected_course |-> Some(cur), autosave_setting |-> autosave1,
   hist |-> [h EXCEPT !.rendered = Some(cur), !.aborted = TRUE,
                      !.lwidgets = DOMAIN rs.wl, !.mwidgets = DOMAIN rs.wm]]

\* the run from show_progress_dashboard on, dash being its progress_percent
DashboardAndSave(file1, autosave1, json3, up, base, cur, rs, dash) ==
  IF dash.raised
  THEN \* ZeroDivisionError
       AbortedRun(file1, autosave1, json3, up,
                  [base EXCEPT !.dashboard = Some(dash)], cur, rs)
  ELSE [file |-> IF autosave1 THEN save_autosave(json3, rs.statuses)
                 ELSE file1,
        json_data |-> json3, statuses |-> rs.statuses,
        wl |-> rs.wl, wm |-> rs.wm, uploader |-> up,
        selected_course |-> Some(cur), autosave_setting |-> autosave1,
        hist |-> [base EXCEPT !.rendered = Some(cur),
                              !.lwidgets = DOMAIN rs.wl,
                              !.mwidgets = DOMAIN rs.wm,
                              !.dashboard = Some(dash),
                              !.saved = IF autosave1 THEN Some(rs.statuses)
                                        ELSE @]]

\* the run from the course selection on, given the document to render and
\* the ledger after the merge of the embedded blocks
RenderAndSave(act, file1, autosave1, json3, up, base, cur, rs) ==
  IF rs.aborted
  THEN \* a duplicate widget key ended the run
       AbortedRun(file1, autosave1, json3, up, base, cur, rs)
  ELSE DashboardAndSave(file1, autosave1, json3, up, base, cur, rs,
                        show_progress_dashboard(cur, rs.statuses))

\* the run from the merge of the embedded blocks on
RenderMerged(act, file1, autosave1, json3, up, base, owl, owm, cur, merged) ==
  RenderAndSave(act, file1, autosave1, json3, up,
                [base EXCEPT !.merged = Some(merged)], cur,
                render_course_details(cur, json3[1], merged, owl, owm, act))

\* the run after handle_file_upload: the branch on json_data
MainBody(act, file1, autosave1, json3, st2, up, base, owl, owm) ==
  IF json3 = None
  THEN \* nothing to render: "Please upload a JSON file ..."
       [file |-> file1, json_data |-> json3, statuses |-> st2,
        wl |-> EmptyDict, wm |-> EmptyDict, uploader |-> up,
        selected_course |-> selected_course, autosave_setting |-> autosave1,
        hist |-> base]
  ELSE IF json3[1] = <<>>
  THEN \* render_course_selection raises KeyError: no course to select
       [file |-> file1, json_data |-> json3,
        statuses |-> MergeEmbedded(json3[1], 1, st2),
        wl |-> owl, wm |-> owm,
        uploader |-> [shown |-> up.shown,
                      file |-> IF up.shown THEN up.file ELSE uploader.file],
        selected_course |-> selected_course, autosave_setting |-> autosave1,
        hist |-> [base EXCEPT !.merged = Some(MergeEmbedded(json3[1], 1, st2)),
                              !.aborted = TRUE]]
  ELSE RenderMerged(act, file1, autosave1, json3, up, base, owl, owm,
                    CurrentCourse(json3[1], act),
                    MergeEmbedded(json3[1], 1, st2))

\* handle_file_upload, ld being session_state after load_autosave
MainUpload(act, reread, autosave1, owl, owm, file1, ld) ==
  LET shown == ld.json_data = None
      held  == IF act.type = "upload" THEN Some(act.doc) ELSE uploader.file
      json3 == IF ~shown THEN ld.json_data
               ELSE IF act.type = "upload" THEN held
               ELSE IF held # None /\ reread THEN held
               ELSE None
      base  == [loaded |-> IF file1.kind # "absent"
                           THEN Some(ld.statuses) ELSE None,
                merged |-> None, rendered |-> None, lwidgets |-> {},
                mwidgets |-> {}, dashboard |-> None, aborted |-> FALSE,
                saved |-> IF act.type = "save_all" THEN Some(statuses)
                          ELSE None,
                userset |-> {}]
  IN  MainBody(act, file1, autosave1, json3, ld.statuses,
               [shown |-> shown, file |-> IF shown THEN held ELSE None],
               base, owl, owm)

\* main calling load_autosave without the test for the file's existence
MainLoad_without_exists_test(act, reread, autosave1, owl, owm, file1) ==
  MainUpload(act, reread, autosave1, owl, owm, file1, load_autosave(file1))

\* the run from load_autosave on, file1 being the file after render_sidebar
MainLoad(act, reread, autosave1, owl, owm, file1) ==
  MainUpload(act, reread, autosave1, owl, owm, file1,
             IF file1.kind # "absent"
             THEN load_autosave(file1)
             ELSE [json_data |-> json_data, statuses |-> statuses])

\* reread: whether json.load succeeds on an uploaded file that an earlier
\* run has already read to its end
main(act, reread) ==
  LET \* render_sidebar
      autosave1 == IF act.type = "toggle_autosave"
                   THEN ~autosave_setting ELSE autosave_setting
      save_all  == act.type = "save_all"
      owl       == IF act.type = "edit"
                   THEN [wl EXCEPT ![act.key].val = act.val] ELSE wl
      owm       == IF act.type = "master" THEN Put(wm, act.key, act.val) ELSE wm
  IN  MainLoad(act, reread, autosave1, owl, owm,
               IF save_all THEN save_autosave(json_data, statuses) ELSE file)

\* the run of main caused by act
Interact(act) ==
  \E reread \in (IF act.type # "upload" /\ uploader.file # None
                  THEN BOOLEAN ELSE {TRUE}) :
  \E r \in {main(act, reread)} :
        /\ file' = r.file
        /\ json_data' = r.json_data
        /\ statuses' = r.statuses
        /\ wl' = r.wl
        /\ wm' = r.wm
        /\ uploader' = r.uploader
        /\ selected_course' = r.selected_course
        /\ autosave_setting' = r.autosave_setting
        /\ hist' = r.hist
        /\ last' = [type |-> act.type, key |-> act.key]
        /\ UNCHANGED << keyIdentity, op, arg, res >>

NoAct == [type |-> "none", key |-> <<>>, val |-> <<>>, cid |-> <<>>, doc |-> <<>>]

NoHist ==
  [loaded |-> None, merged |-> None, rendered |-> None, lwidgets |-> {},
   mwidgets |-> {}, dashboard |-> None, aborted |-> FALSE, saved |-> None,
   userset |-> {}]

\* the session before the first run of the script
Init ==
  /\ file \in InitFiles
  /\ json_data = None
  /\ statuses = EmptyDict
  /\ wl = EmptyDict
  /\ wm = EmptyDict
  /\ uploader = [shown |-> FALSE, file |-> None]
  /\ selected_course = None
  /\ autosave_setting = FALSE
  /\ keyIdentity \in BOOLEAN
  /\ last = [type |-> "start", key |-> <<>>]
  /\ hist = NoHist
  /\ op = "none" /\ arg = <<>> /\ res = <<>>

\* the ledger keys of the items of a section of course cid
ItemKeys(cid, section) ==
  {LectureKey(cid, SecTitle(section), section.items[i], i - 1) :
     i \in 1..Len(section.items)}

\* the ledger keys of the sections of the rendered course whose master
\* widget has the key mk
MasterItemKeys(doc, cid, mk) ==
  UNION {ItemKeys(cid, CourseOf(doc, cid).sections[i]) :
           i \in {j \in 1..Len(CourseOf(doc, cid).sections) :
                    MasterKey(cid, SecTitle(CourseOf(doc, cid).sections[j])) = mk}}

\* the ledger key of the lecture whose selectbox has the key uk
KeyOfWidget(uk) == SubSeq(uk, 1, Len(uk) - (Len(sStatus) + 1))

\* the keys that the run in progress has set for the user: the edited
\* lecture (statuses[key] = new_status), or the items of the section a
\* master status was applied to (statuses[key] = master_status)
UserSetKeys ==
  IF hist.aborted \/ hist.rendered = None \/ json_data = None THEN {}
  ELSE IF last.type = "edit" THEN {KeyOfWidget(last.key)}
  ELSE IF last.type = "apply" /\ last.key \in DOMAIN wm
          /\ wm[last.key] # NoSelection
       THEN MasterItemKeys(json_data[1], hist.rendered[1], last.key)
  ELSE {}

\* the page is opened, or a run caused by a control that main.py does not
\* use for the ledger (Preload checkbox, filter, Save Settings, a download)
Rerun ==
  /\ last.type \in {"start", "idle"}
  /\ Interact(NoAct)

Started == last.type # "start"

\* the user picks a status in the selectbox of a rendered lecture
EditLecture ==
  /\ last.type = "idle"
  /\ \E uk \in hist.lwidgets : \E i \in 1..MaxPick :
       /\ universal_status_options[i] # wl[uk].val
       /\ Interact([NoAct EXCEPT !.type = "edit", !.key = uk,
                                 !.val = universal_status_options[i]])

\* the user picks a value in the master selectbox of a rendered section
SelectMaster ==
  /\ last.type = "idle"
  /\ \E mk \in hist.mwidgets :
     \E v \in {NoSelection}
                \cup {universal_status_options[i] : i \in 1..MaxMaster} :
       /\ v # wm[mk]
       /\ Interact([NoAct EXCEPT !.type = "master", !.key = mk, !.val = v])

\* the user clicks the Apply button of a rendered section
ClickApply ==
  /\ last.type = "idle"
  /\ \E mk \in hist.mwidgets :
       Interact([NoAct EXCEPT !.type = "apply", !.key = mk])

\* the user clicks Save All
ClickSaveAll ==
  /\ last.type = "idle"
  /\ Interact([NoAct EXCEPT !.type = "save_all"])

\* the user toggles the Autosave checkbox
ToggleAutosave ==
  /\ last.type = "idle"
  /\ Interact([NoAct EXCEPT !.type = "toggle_autosave"])

\* the user selects another course
SelectCourse ==
  /\ last.type = "idle"
  /\ hist.rendered # None
  /\ \E c \in CourseIds(json_data[1]) :
       /\ c # hist.rendered[1]
       /\ Interact([NoAct EXCEPT !.type = "select_course", !.cid = c])

\* the user uploads a JSON document
Upload ==
  /\ last.type = "idle"
  /\ uploader.shown
  /\ \E d \in {DocTwo, DocDup} : Interact([NoAct EXCEPT !.type = "upload", !.doc = d])

\* the run ends and the page waits for the user: the locals of main are
\* gone; st.session_state, autosave.json and the rendered page stay, and
\* the keys the run has set for the user are remembered
EndRun ==
  /\ last.type \notin {"start", "idle"}
  /\ last' = [type |-> "idle", key |-> <<>>]
  /\ hist' = [NoHist EXCEPT !.rendered = hist.rendered,
                            !.lwidgets = hist.lwidgets,
                            !.mwidgets = hist.mwidgets,
                            !.userset  = UserSetKeys]
  /\ UNCHANGED << file, json_data, statuses, wl, wm, uploader,
                  selected_course, autosave_setting, keyIdentity,
                  op, arg, res >>

Next ==
  \/ Rerun
  \/ EndRun
  \/ EditLecture
  \/ SelectMaster
  \/ ClickApply
  \/ ClickSaveAll
  \/ ToggleAutosave
  \/ SelectCourse
  \/ Upload

Spec == Init /\ [][Next]_vars

\* an autosave.json holding statuses and "json_data": null, the value that
\* save_autosave writes for a session without a document
StatusesOnlyFile ==
  [kind |-> "object", has_json_data |-> TRUE, json_data |-> None,
   statuses |-> (kOld :> rawDoneLower) @@ (kAx :> rawSkipPadded),
   written |-> FALSE]

\* the session before the first run, beside such a file
InitStatusesOnly ==
  /\ file = StatusesOnlyFile
  /\ json_data = None
  /\ statuses = EmptyDict
  /\ wl = EmptyDict
  /\ wm = EmptyDict
  /\ uploader = [shown |-> FALSE, file |-> None]
  /\ selected_course = None
  /\ autosave_setting = FALSE
  /\ keyIdentity \in BOOLEAN
  /\ last = [type |-> "start", key |-> <<>>]
  /\ hist = NoHist
  /\ op = "none" /\ arg = <<>> /\ res = <<>>

SpecStatusesOnly == InitStatusesOnly /\ [][Next]_vars

\* ------------------------------------------------------------------------
\* The status helpers applied to enumerated arguments
\* ------------------------------------------------------------------------
\* whitespace strings of length at most n
RECURSIVE Pads(_)
Pads(n) ==
  IF n = 0 THEN {<<>>}
  ELSE Pads(n - 1) \cup {<<c>> \o p : c \in Whitespace, p \in Pads(n - 1)}

CanonicalPlain ==
  {pNotDone, pInProgress, pDone, pImportant, pComeBackLater, pSkip, pMaybe,
   pIgnore}
CanonicalDisplay ==
  {dNotDone, dInProgress, dDone, dImportant, dComeBackLater, dSkip, dMaybe,
   dIgnore}

\* the canonical spellings as written, in upper case and in lower case,
\* with whitespace around them
SpelledInputs ==
  {l \o c \o r :
     l \in Pads(MaxPad), r \in Pads(MaxPad),
     c \in UNION {{t, Upper(t), Lower(t)} :
                    t \in CanonicalPlain \cup CanonicalDisplay}}

\* strings that are no spelling of a status
OtherInputs ==
  { <<>>, <<" ">>, rawFinished,
    <<"D","o","n","e","!">>,
    <<"N","o","t","D","o","n","e">>,
    <<"N","o","t"," "," ","D","o","n","e">>,
    <<"N","o","t","\t","D","o","n","e">>,
    <<"U+2705","D","o","n","e">>,
    <<"D","o","n","e"," ","U+2705">>,
    <<"U+2705"," ","M","a","y","b","e">>,
    <<"-","-","-">> }

StringInputs == SpelledInputs \cup OtherInputs

LedgerKeys == <<kAx, kAy, kBz, kOld>>

\* the ledgers over at most MaxLedgerKeys keys with canonical display values
LedgerInputs ==
  UNION {[K -> CanonicalDisplay] :
           K \in SUBSET {LedgerKeys[i] : i \in 1..MaxLedgerKeys}}

\* ledgers whose values are display spellings, plain spellings and strings
\* that are no status
StoredLedgerInputs ==
  UNION {[K -> {dDone, dMaybe, dInProgress, pDone, rawDoneLower, rawFinished}] :
           K \in SUBSET {LedgerKeys[i] : i \in 1..MaxLedgerKeys}}

\* sections with and without titles
secUntitled == [title |-> None, items |-> <<itemU, itemU, itemZ>>]
secTitled   == [title |-> Some(secS), items |-> <<itemX, itemY>>]

\* a section, a value of its master selectbox and a ledger
ApplyInputs ==
  [cid : {cA}, section : {secTitled, secUntitled},
   master : {NoSelection} \cup CanonicalDisplay, ledger : LedgerInputs]

\* a course "A" with four lectures and a course whose identifier, "A-s",
\* begins with "A-"
cAs   == <<"A","-","s">>
kAq   == <<"A","-","s","-","q","-","2">>
kAr   == <<"A","-","s","-","r","-","3">>
kAsz  == <<"A","-","s","-","t","-","z","-","7">>
DocPrefix ==
  << [cid      |-> cA,
      statuses |-> None,
      sections |-> << [title |-> Some(secS),
                       items |-> <<itemX, itemY,
                                   [title |-> Some(<<"q">>), object_index |-> None],
                                   [title |-> Some(<<"r">>), object_index |-> None]>>] >>],
     [cid      |-> cAs,
      statuses |-> None,
      sections |-> << [title |-> Some(secT), items |-> <<itemZ>>] >>] >>

\* the ledgers of the first n lectures of course "A", for every n, with or
\* without an entry of the lecture of course "A-s"
DashLedgers ==
  {a @@ b :
     a \in UNION {[{<<kAx, kAy, kAq, kAr>>[i] : i \in 1..n} -> CanonicalDisplay] :
                    n \in 0..4},
     b \in {EmptyDict, kAsz :> dDone, kAsz :> dMaybe}}

\* a course and a ledger handed to the dashboard: the ledgers above, and
\* ledgers of course "A" with values that are no display spelling
DashInputs ==
  [cid : {cA, cAs},
   ledger : DashLedgers
            \cup [{kAx, kAy} -> {dDone, dNotDone, pDone, rawFinished}]]

\* the greatest position of an item in its section
MaxIdx == 1

\* course identifiers, section titles, lecture titles and index values,
\* with and without the separator, and absent
KeyCids    == {cA, <<"A","B">>, cAs, sMaster}
KeySecs    == {None, Some(secS), Some(<<"B","s">>), Some(<<"s","-","t">>),
               Some(<<"s","-","0">>), Some(cA)}
KeyTitles  == {None, Some(<<"t">>), Some(secS), Some(sUntitled)}
KeyIndexes == {None, Some(JInt(0)), Some(JInt(10)), Some(JStr(<<"1">>)),
               Some(JStr(sMaster))}

\* a lecture: its course, its section, the item and the position of the
\* item in the section
KeyInputs ==
  [cid : KeyCids, section : [title : KeySecs],
   item : [title : KeyTitles, object_index : KeyIndexes], idx : 0..MaxIdx]

InitPure ==
  /\ file = AbsentFile
  /\ json_data = None
  /\ statuses = EmptyDict
  /\ wl = EmptyDict
  /\ wm = EmptyDict
  /\ uploader = [shown |-> FALSE, file |-> None]
  /\ selected_course = None
  /\ autosave_setting = FALSE
  /\ keyIdentity = FALSE
  /\ last = [type |-> "start", key |-> <<>>]
  /\ hist = NoHist
  /\ op = "none"
  /\ res = <<>>
  /\ \/ arg \in [kind : {"value"}, v : StringInputs \cup NonStrings]
     \/ arg \in [kind : {"ledger"}, v : LedgerInputs]
     \/ arg \in [kind : {"stored"}, v : StoredLedgerInputs]
     \/ arg \in [kind : {"apply"}, v : ApplyInputs]
     \/ arg \in [kind : {"dash"}, v : DashInputs]
     \/ arg \in [kind : {"lecture"}, v : KeyInputs]

\* get_ui_status(arg) in both variants
ApplyGetUiStatus ==
  /\ op = "none" /\ arg.kind = "value"
  /\ op' = "get_ui_status"
  /\ res' = [main |-> get_ui_status(arg.v),
             personal |-> personal_get_ui_status(arg.v)]
  /\ UNCHANGED << appVars, arg >>

\* get_plain_status(arg)
ApplyGetPlainStatus ==
  /\ op = "none" /\ arg.kind = "value" /\ IsString(arg.v)
  /\ op' = "get_plain_status"
  /\ res' = get_plain_status(arg.v)
  /\ UNCHANGED << appVars, arg >>

\* src/dev/app.py, src/dev/app_pagination_emoji.py: the selectable statuses
dev_status_options == <<pNotDone, pInProgress, pDone, pImportant, pSkip, pIgnore>>

\* the early variants' render loop for one item: the ledger entry is
\* created when missing, then the selectbox is built with
\* index=status_options.index(statuses[unique_key]); list.index raises
\* ValueError when no option equals the value (position 0 below)
dev_RenderItem(st, unique_key) ==
  LET st1   == IF unique_key \in DOMAIN st THEN st
               ELSE Put(st, unique_key, pNotDone)
      index == FirstOption(dev_status_options, st1[unique_key], 1)
  IN  IF index = 0
      THEN [raised |-> TRUE, shown |-> None, statuses |-> st1]
      ELSE [raised |-> FALSE, shown |-> Some(dev_status_options[index]),
            statuses |-> Put(st1, unique_key, dev_status_options[index])]

\* the early variants load autosave.json holding arg as the status of a
\* lecture, or no status for it, and render the lecture
ApplyDevRender ==
  /\ op = "none" /\ arg.kind = "value"
  /\ op' = "dev_render"
  /\ \E loaded \in {EmptyDict, kAx :> arg.v} :
       res' = dev_RenderItem(loaded, kAx)
  /\ UNCHANGED << appVars, arg >>

\* get_plain_statuses(arg)
ApplyGetPlainStatuses ==
  /\ op = "none" /\ arg.kind = "stored"
  /\ op' = "get_plain_statuses"
  /\ res' = get_plain_statuses(arg.v)
  /\ UNCHANGED << appVars, arg >>

\* status_mapping[arg]
ApplyStatusMapping ==
  /\ op = "none" /\ arg.kind = "value" /\ arg.v \in DOMAIN status_mapping
  /\ op' = "status_mapping"
  /\ res' = status_mapping[arg.v]
  /\ UNCHANGED << appVars, arg >>

\* save_autosave of the ledger arg, then load_autosave of the file written
ApplySaveLoad ==
  /\ op = "none" /\ arg.kind = "ledger"
  /\ op' = "save_load"
  /\ res' = [saved  |-> save_autosave(None, arg.v).statuses,
             loaded |-> load_autosave(save_autosave(None, arg.v)).statuses]
  /\ UNCHANGED << appVars, arg >>

\* the Apply loop of both variants on the section arg.v.section
ApplyApplyMaster ==
  /\ op = "none" /\ arg.kind = "apply"
  /\ op' = "apply_master"
  /\ res' = [main     |-> ApplyMaster(arg.v.cid, SecTitle(arg.v.section),
                                      arg.v.section.items, 1, arg.v.master,
                                      arg.v.ledger),
             personal |-> personal_ApplyMaster(arg.v.cid,
                                      SecTitle(arg.v.section),
                                      arg.v.section.items, 1, arg.v.master,
                                      arg.v.ledger)]
  /\ UNCHANGED << appVars, arg >>

\* show_progress_dashboard(arg.v.cid, arg.v.ledger) in both variants
ApplyDashboard ==
  /\ op = "none" /\ arg.kind = "dash"
  /\ op' = "dashboard"
  /\ res' = [counts   |-> DashboardCounts(arg.v.cid, arg.v.ledger),
             main     |-> show_progress_dashboard(arg.v.cid, arg.v.ledger),
             personal |-> personal_show_progress_dashboard(arg.v.cid,
                                                           arg.v.ledger)]
  /\ UNCHANGED << appVars, arg >>

\* generate_markdown: the status written into the row of each item of a
\* section, and the status that render_course_details shows for the item
MarkdownStatuses(course_id, section, st) ==
  [i \in 1..Len(section.items) |->
     [exported |-> DictGet(st, MarkdownKey(course_id, SecTitle(section),
                                           section.items[i]), dNotDone),
      shown    |-> DictGet(st, LectureKey(course_id, SecTitle(section),
                                          section.items[i], i - 1), dNotDone)]]

\* the Markdown export of the section arg.v.section under the ledger
ApplyGenerateMarkdown ==
  /\ op = "none" /\ arg.kind = "apply"
  /\ op' = "generate_markdown"
  /\ res' = MarkdownStatuses(arg.v.cid, arg.v.section, arg.v.ledger)
  /\ UNCHANGED << appVars, arg >>

\* the keys that render_course_details and the other parts of the program
\* derive for the lecture l
KeysOf(l) ==
  [key      |-> LectureKey(l.cid, SecTitle(l.section), l.item, l.idx),
   master   |-> MasterKey(l.cid, SecTitle(l.section)),
   markdown |-> MarkdownKey(l.cid, SecTitle(l.section), l.item),
   personal |-> personal_LectureKey(l.cid, SecTitle(l.section), l.item),
   personal_master |-> personal_MasterKey(l.cid, SecTitle(l.section))]

\* the derivation of the keys of the lecture arg.v
ApplyLectureKey ==
  /\ op = "none" /\ arg.kind = "lecture"
  /\ op' = "lecture_key"
  /\ res' = KeysOf(arg.v)
  /\ UNCHANGED << appVars, arg >>

NextPure ==
  \/ ApplyDevRender
  \/ ApplyGenerateMarkdown
  \/ ApplyGetPlainStatuses
  \/ ApplyGetUiStatus
  \/ ApplyGetPlainStatus
  \/ ApplyStatusMapping
  \/ ApplySaveLoad
  \/ ApplyApplyMaster
  \/ ApplyDashboard
  \/ ApplyLectureKey

SpecPure == InitPure /\ [][NextPure]_vars

\* ------------------------------------------------------------------------
\* Properties
\* ------------------------------------------------------------------------
\* the vocabulary as the specification lists it: position, plain, display
PlainAt(i)   == << pNotDone, pInProgress, pDone, pImportant, pComeBackLater,
                   pSkip, pMaybe, pIgnore >>[i]
DisplayAt(i) == << dNotDone, dInProgress, dDone, dImportant, dComeBackLater,
                   dSkip, dMaybe, dIgnore >>[i]
StatusCount  == 8

\* s, trimmed and lower-cased, is the plain or the display spelling i
Spells(s, i) ==
  LET t == Lower(Strip(s))
  IN  t = Lower(PlainAt(i)) \/ t = Lower(DisplayAt(i))

\* C3: saving a ledger of canonical display values and loading the saved
\* mapping back gives a ledger with the same keys and the same values.
C3_RoundTrip ==
  op = "save_load" =>
    /\ DOMAIN res.loaded = DOMAIN arg.v
    /\ \A k \in DOMAIN arg.v : res.loaded[k] = arg.v[k]

C3_Witness ==
  /\ op = "save_load"
  /\ DOMAIN arg.v = {kAx, kAy}
  /\ arg.v[kAx] = dMaybe /\ arg.v[kAy] = dInProgress
  /\ res.saved[kAx] = pMaybe /\ res.saved[kAy] = pInProgress

\* C4: the plain-to-display mapping is a bijection on the 8 statuses:
\* status_mapping[get_plain_status(d)] = d for every display spelling d and
\* get_plain_status(status_mapping[p]) = p for every plain spelling p.
C4_Bijection ==
  /\ (op = "get_plain_status" /\ arg.v \in CanonicalDisplay) =>
        /\ res \in DOMAIN status_mapping
        /\ status_mapping[res] = arg.v
  /\ op = "status_mapping" => get_plain_status(res) = arg.v
  /\ Cardinality(DOMAIN status_mapping) = StatusCount
  /\ Cardinality(DOMAIN reverse_mapping) = StatusCount

C4_Witness ==
  /\ op = "status_mapping" /\ arg.v = pInProgress /\ res = dInProgress

\* C5: a string that, trimmed and lower-cased, equals the lower-cased plain
\* or display spelling of a status is normalized to that status's display
\* spelling, in both variants.
C5_Recognized ==
  (op = "get_ui_status" /\ IsString(arg.v)) =>
    \A i \in 1..StatusCount :
      Spells(arg.v, i) => res.main = DisplayAt(i) /\ res.personal = DisplayAt(i)

C5_Witness ==
  /\ op = "get_ui_status"
  /\ arg.v = <<" ","U+2705"," ","D","O","N","E","\t">>
  /\ res.main = dDone

\* C6: a string that matches no spelling is normalized to the display form
\* of the first status, "Not Done"; the result is never the string itself.
C6_Unrecognized ==
  (op = "get_ui_status" /\ IsString(arg.v)
     /\ \A i \in 1..StatusCount : ~Spells(arg.v, i)) =>
    /\ res.main = dNotDone
    /\ res.main = universal_status_options[1]
    /\ res.main # arg.v

C6_Witness ==
  /\ op = "get_ui_status"
  /\ arg.v = <<"U+2705"," ","M","a","y","b","e">>
  /\ res.main = dNotDone

\* C1: every value of the in-memory ledger is one of the 8 canonical display
\* spellings, after the load, after the merge of the embedded blocks and at
\* the end of every interaction.
C1_AllDisplay ==
  /\ \A k \in DOMAIN statuses : statuses[k] \in CanonicalDisplay
  /\ hist.loaded # None =>
       \A k \in DOMAIN hist.loaded[1] : hist.loaded[1][k] \in CanonicalDisplay
  /\ hist.merged # None =>
       \A k \in DOMAIN hist.merged[1] : hist.merged[1][k] \in CanonicalDisplay

C1_Witness ==
  /\ last.type = "apply"
  /\ hist.loaded # None /\ hist.merged # None
  /\ kBz \in DOMAIN statuses /\ statuses[kBz] = dNotDone
  /\ kOld \in DOMAIN statuses /\ statuses[kOld] = dNotDone
  /\ kAy \in DOMAIN statuses /\ statuses[kAy] = dImportant

\* C2: a status set by an edit or a master apply is kept by every later
\* interaction that neither sets the key again nor loads a new Course Data
\* Store.
C2_Original ==
  [][ ( /\ last'.type \in {"none", "save_all", "toggle_autosave",
                           "select_course", "master"}
        /\ json_data' = json_data )
      => \A k \in hist.userset :
           k \in DOMAIN statuses =>
             k \in DOMAIN statuses' /\ statuses'[k] = statuses[k] ]_vars

\* C7: a save writes exactly the ledger's keys, each with the plain spelling
\* of its display value, so a file written by the program holds only the 8
\* canonical plain spellings.
C7_SavedPlain ==
  /\ hist.saved # None =>
       /\ file.kind = "object"
       /\ DOMAIN file.statuses = DOMAIN hist.saved[1]
       /\ \A k \in DOMAIN hist.saved[1] :
            \E i \in 1..StatusCount :
              hist.saved[1][k] = DisplayAt(i) /\ file.statuses[k] = PlainAt(i)
  /\ file.written =>
       \A k \in DOMAIN file.statuses : file.statuses[k] \in CanonicalPlain

C7_Witness ==
  /\ hist.saved # None
  /\ kAy \in DOMAIN hist.saved[1] /\ hist.saved[1][kAy] = dImportant
  /\ file.statuses[kAy] = pImportant
  /\ kAx \in DOMAIN hist.saved[1] /\ hist.saved[1][kAx] = dInProgress
  /\ file.statuses[kAx] = pInProgress

\* the embedded blocks of a document that name the key k, by position
BlocksWith(doc, k) ==
  {i \in 1..Len(doc) : doc[i].statuses # None /\ k \in DOMAIN doc[i].statuses[1]}

EmbeddedKeys(doc) ==
  UNION {DOMAIN doc[i].statuses[1] :
           i \in {j \in 1..Len(doc) : doc[j].statuses # None}}

\* C8: merging a persisted mapping sets every key k of the mapping to
\* get_ui_status(raw) and leaves the ledger entries of all other keys as
\* they were, for the autosave statuses and for the embedded blocks.
C8_Original ==
  [][ /\ (hist'.loaded # None /\ last'.type # "save_all") =>
           /\ \A k \in DOMAIN file.statuses :
                /\ k \in DOMAIN hist'.loaded[1]
                /\ hist'.loaded[1][k] = get_ui_status(file.statuses[k])
           /\ \A k \in DOMAIN statuses \ DOMAIN file.statuses :
                /\ k \in DOMAIN hist'.loaded[1]
                /\ hist'.loaded[1][k] = statuses[k]
      /\ (hist'.merged # None /\ hist'.loaded # None) =>
           \A k \in DOMAIN hist'.loaded[1] \ EmbeddedKeys(json_data'[1]) :
                /\ k \in DOMAIN hist'.merged[1]
                /\ hist'.merged[1][k] = hist'.loaded[1][k] ]_vars

\* C9: after the merge of a load, a key named by embedded blocks holds the
\* normalized value of the last course, in document order, whose block names
\* it, also when the top-level autosave statuses name the key; the entry
\* still holds it at the end of the run unless a widget of the key was
\* rendered.
C9_LaterWins ==
  (hist.merged # None /\ json_data # None) =>
    \A k \in EmbeddedKeys(json_data[1]) :
      \A i \in BlocksWith(json_data[1], k) :
        (\A j \in BlocksWith(json_data[1], k) : j <= i) =>
          /\ k \in DOMAIN hist.merged[1]
          /\ hist.merged[1][k] = get_ui_status(json_data[1][i].statuses[1][k])
          /\ (~hist.aborted /\ UniqueKey(k) \notin DOMAIN wl) =>
               statuses[k] = hist.merged[1][k]

C9_Witness ==
  /\ hist.loaded # None /\ hist.merged # None
  /\ kAx \in DOMAIN hist.loaded[1] /\ hist.loaded[1][kAx] = dDone
  /\ Cardinality(BlocksWith(json_data[1], kAx)) = 2
  /\ hist.merged[1][kAx] = dSkip
  /\ hist.rendered = Some(cB) /\ statuses[kAx] = dSkip

\* C10: after a master status other than "---" was applied to a section,
\* every item of the section has that status at the end of the interaction.
C10_Original ==
  ( /\ last.type = "apply" /\ ~hist.aborted /\ hist.rendered # None
    /\ last.key \in DOMAIN wm /\ wm[last.key] # NoSelection )
  => \A k \in MasterItemKeys(json_data[1], hist.rendered[1], last.key) :
       DictGet(statuses, k, dNotDone) = wm[last.key]

\* the values of a ledger
Values(st) == {st[k] : k \in DOMAIN st}

\* C11: the Apply loop run while the master selectbox shows "---" returns
\* the ledger it was given, with the same keys and values, in src/main.py
\* and in src/personal/main.py; and no Apply loop stores "---".
C11_SentinelNoOp ==
  op = "apply_master" =>
    /\ arg.v.master = NoSelection =>
         (res.main = arg.v.ledger /\ res.personal = arg.v.ledger)
    /\ NoSelection \notin Values(res.main) \cup Values(res.personal)

C11_Witness ==
  /\ op = "apply_master" /\ arg.v.master = NoSelection
  /\ arg.v.section = secTitled
  /\ DOMAIN arg.v.ledger = {kAx} /\ arg.v.ledger[kAx] = dDone
  /\ DOMAIN res.main = {kAx} /\ res.main[kAx] = dDone

\* the ledger keys derived from the lectures of course cid of a document
LectureKeysOf(doc, cid) ==
  UNION {ItemKeys(cid, CourseOf(doc, cid).sections[i]) :
           i \in 1..Len(CourseOf(doc, cid).sections)}

\* the entries of the ledger st that belong to the lectures of course cid
CourseEntries(doc, cid, st) == LectureKeysOf(doc, cid) \cap DOMAIN st

\* numerator and denominator of the completion formula over the entries keys
FormulaNum(keys, st) == CountOf(keys, st, dDone) + CountOf(keys, st, dImportant)
FormulaDen(keys, st) ==
  CountOf(keys, st, dDone) + CountOf(keys, st, dImportant)
  + CountOf(keys, st, dInProgress) + CountOf(keys, st, dSkip)
  + CountOf(keys, st, dComeBackLater) + CountOf(keys, st, dNotDone)

\* the percentage p is the fraction num / den * 100
IsPercent(p, num, den) == ~p.raised /\ p.num * den = num * 100 * p.den

\* C12: in both variants the completion percentage of a course is
\* (Done + Important) / (Done + Important + In Progress + Skip + Come Back
\* Later + Not Done) * 100 over the ledger entries of the course, so Done,
\* Done, In Progress, Not Done give 50.0.
C12_Original ==
  op = "dashboard" =>
    LET keys == CourseEntries(DocPrefix, arg.v.cid, arg.v.ledger)
        num  == FormulaNum(keys, arg.v.ledger)
        den  == FormulaDen(keys, arg.v.ledger)
    IN  den > 0 => /\ IsPercent(res.main, num, den)
                   /\ IsPercent(res.personal, num, den)

\* C13: in both variants the completion percentage is 0 whenever the
\* denominator of the completion formula is 0, also for a course whose
\* entries are all Maybe or Ignore, and no division by zero is made.
C13_Original ==
  op = "dashboard" =>
    LET keys == CourseEntries(DocPrefix, arg.v.cid, arg.v.ledger)
    IN  /\ ~res.main.raised /\ ~res.personal.raised
        /\ FormulaDen(keys, arg.v.ledger) = 0 =>
             (res.main = PercentZero /\ res.personal = PercentZero)

\* C14: the dashboard of course c counts exactly the ledger entries whose
\* keys were derived from lectures of c, in total and for every status.
C14_Original ==
  op = "dashboard" =>
    LET keys == CourseEntries(DocPrefix, arg.v.cid, arg.v.ledger)
    IN  /\ res.counts.total = Cardinality(keys)
        /\ res.counts.done = CountOf(keys, arg.v.ledger, dDone)
        /\ res.counts.maybe = CountOf(keys, arg.v.ledger, dMaybe)
        /\ res.counts.not_done = CountOf(keys, arg.v.ledger, dNotDone)

\* C15: a lecture without a ledger entry is shown as "Not Done" and the
\* rendering creates no entry for it: an entry that the ledger holds after
\* a complete rendering but not before it belongs to the lecture the user
\* edited or to a section a master status was applied to.
C15_Original ==
  (hist.merged # None /\ hist.rendered # None /\ ~hist.aborted) =>
    \A k \in DOMAIN statuses \ DOMAIN hist.merged[1] :
      \/ last.type = "edit" /\ KeyOfWidget(last.key) = k
      \/ /\ last.type = "apply"
         /\ last.key \in DOMAIN wm /\ wm[last.key] # NoSelection
         /\ k \in MasterItemKeys(json_data[1], hist.rendered[1], last.key)

\* the four components of the key of a lecture, as the strings the key is
\* built from
Components(l) ==
  << l.cid, SecTitle(l.section), Get(l.item.title, sUntitled),
     PyStr(Get(l.item.object_index, JInt(l.idx))) >>

SeparatorFree(l) ==
  \A i \in 1..4 : \A j \in 1..Len(Components(l)[i]) :
    Components(l)[i][j] # "-"

\* C16: the key of a lecture is a function of its four components, and two
\* lectures that differ in a component, none of the components of either
\* containing "-", have different keys.
C16_Injective ==
  op = "lecture_key" =>
    \A l \in KeyInputs :
      /\ Components(l) = Components(arg.v) => KeysOf(l).key = res.key
      /\ ( /\ SeparatorFree(l) /\ SeparatorFree(arg.v)
           /\ Components(l) # Components(arg.v) )
         => KeysOf(l).key # res.key

C16_Witness ==
  /\ op = "lecture_key"
  /\ Components(arg.v) = << <<"A","B">>, secS, <<"t">>, <<"1">> >>
  /\ arg.v.item.object_index = None
  /\ res.key = <<"A","B","-","s","-","t","-","1">>

\* C17: the master pseudo-key of a section is the key of no lecture, for
\* all course identifiers, section titles, lecture titles and index values.
C17_Original ==
  op = "lecture_key" =>
    \A l \in KeyInputs :
      /\ KeysOf(l).master # res.key
      /\ KeysOf(l).personal_master # res.personal

\* C18: the key is a string built with the defaults "Untitled Section" and
\* "Untitled" for absent titles and with the position of the item for an
\* absent object_index; a present object_index is used in its place.
C18_Defaults ==
  op = "lecture_key" =>
    LET sec   == IF arg.v.section.title = None THEN sUntitledSection
                 ELSE arg.v.section.title[1]
        title == IF arg.v.item.title = None THEN sUntitled
                 ELSE arg.v.item.title[1]
        index == IF arg.v.item.object_index = None
                 THEN <<Digits[arg.v.idx + 1]>>
                 ELSE PyStr(arg.v.item.object_index[1])
    IN  /\ res.key = arg.v.cid \o <<"-">> \o sec \o <<"-">> \o title
                     \o <<"-">> \o index
        /\ \A i \in 1..Len(res.key) : IsString(<<res.key[i]>>)

C18_Witness ==
  /\ op = "lecture_key"
  /\ arg.v.cid = cA /\ arg.v.idx = 1
  /\ arg.v.section.title = None
  /\ arg.v.item = itemU
  /\ res.key = <<"A","-","U","n","t","i","t","l","e","d"," ","S","e","c",
                 "t","i","o","n","-","U","n","t","i","t","l","e","d","-","1">>

\* some section of course cid lists two items with the same identity key
HasDuplicateKeys(doc, cid) ==
  \E s \in 1..Len(CourseOf(doc, cid).sections) :
    LET section == CourseOf(doc, cid).sections[s]
    IN  \E i, j \in 1..Len(section.items) :
          /\ i < j
          /\ LectureKey(cid, SecTitle(section), section.items[i], i - 1)
             = LectureKey(cid, SecTitle(section), section.items[j], j - 1)

\* C19: rendering a course with two items of one section that derive the
\* same key raises no error, both items being shown with the one ledger
\* entry they share.
C19_Original ==
  ( /\ json_data # None /\ hist.rendered # None
    /\ HasDuplicateKeys(json_data[1], hist.rendered[1]) )
  => ~hist.aborted

C21_Original ==
  (Started /\ file.kind = "malformed")
    => /\ json_data = None
       /\ statuses = EmptyDict
       /\ uploader.shown
       /\ ~hist.aborted

\* C22: when autosave.json is absent, the first run raises no error and
\* loads nothing: the ledger stays empty, json_data stays None, the file is
\* not created and the uploader is shown.
C22_AbsentNothingToLoad ==
  [][(last.type = "start" /\ file.kind = "absent")
       => /\ json_data' = None
          /\ statuses' = EmptyDict
          /\ hist'.loaded = None
          /\ ~hist'.aborted
          /\ uploader' = [shown |-> TRUE, file |-> None]
          /\ file' = file]_vars

C22_Witness ==
  /\ last.type = "none"
  /\ file = AbsentFile
  /\ hist = NoHist
  /\ json_data = None
  /\ uploader.shown

C24_PlainOrUnchanged ==
  /\ op = "get_plain_status" =>
        /\ \A i \in 1..StatusCount : arg.v = DisplayAt(i) => res = PlainAt(i)
        /\ arg.v \notin CanonicalDisplay => res = arg.v
  /\ op = "get_plain_statuses" =>
        /\ DOMAIN res = DOMAIN arg.v
        /\ \A k \in DOMAIN arg.v :
             /\ \A i \in 1..StatusCount :
                  arg.v[k] = DisplayAt(i) => res[k] = PlainAt(i)
             /\ arg.v[k] \notin CanonicalDisplay => res[k] = arg.v[k]

C24_Witness ==
  /\ op = "get_plain_statuses"
  /\ DOMAIN arg.v = {kAx, kAy}
  /\ arg.v[kAx] = rawFinished /\ arg.v[kAy] = dMaybe
  /\ res[kAx] = rawFinished /\ res[kAy] = pMaybe

\* C25: for every lecture item the key under which the Markdown export
\* looks up the status equals the key under which the course view stores
\* it, and the exported status is the status the view shows, also for an
\* item without object_index that is not the first of its section.
C25_Original ==
  /\ op = "lecture_key" => res.markdown = res.key
  /\ op = "generate_markdown" =>
        \A i \in DOMAIN res : res[i].exported = res[i].shown

C27_Original ==
  (op = "dev_render" /\ IsString(arg.v)) =>
    /\ ~res.raised
    /\ (\A i \in 1..Len(dev_status_options) : dev_status_options[i] # arg.v)
         => res.shown = Some(pNotDone)

\* C28: in both variants get_ui_status normalizes a persisted value that
\* is not a string (null, a number, a list) to "Not Done" and does not
\* raise.
C28_Original ==
  (op = "get_ui_status" /\ ~IsString(arg.v)) =>
    /\ res.main = dNotDone
    /\ res.personal # Raised
    /\ res.personal = dNotDone

\* C29: a run caused by the status control of one lecture leaves the
\* resolved status of every other key as it was before the change.
C29_Original ==
  [][last'.type = "edit"
       => \A k \in (DOMAIN statuses \cup DOMAIN statuses')
                      \ {KeyOfWidget(last'.key)} :
            DictGet(statuses', k, dNotDone) = DictGet(statuses, k, dNotDone)]_vars
====
